---- MODULE Spec2Model ----
(***************************************************************************)
(* Model of the two scripts of the repository:                             *)
(*   src/timeline.py  get_timeline, execute_timeline_request, the load     *)
(*                    driver (run_single_test, run_load_test, main) and    *)
(*                    the CSV exporter (export_to_csv);                    *)
(*   src/delete.py    delete_all_posts.                                    *)
(* The datastore client is external: its calls are modelled by what they   *)
(* return on the modelled data, and by a nondeterministic choice between   *)
(* returning and raising.                                                  *)
(***************************************************************************)
EXTENDS Integers, Sequences, FiniteSets, TLC

VARIABLES
    posts,          \* datastore, kind Post: set of [author, created]
    users,          \* datastore, kind User: name -> [exists, follows]
    user,           \* get_timeline: argument user
    limit,          \* get_timeline: argument limit
    env,            \* what the datastore client did during the last request
    tl,             \* outcome of the last get_timeline call
    res,            \* outcome of the last execute_timeline_request call
    dpc,            \* delete_all_posts: position in the loop
    batch_size,     \* delete_all_posts: argument batch_size
    batch,          \* delete_all_posts: local posts (the fetched keys)
    passes,         \* delete_all_posts: len(posts) of every delete pass so far
    queries,        \* delete_all_posts: number of queries fetched so far
    initial_count,  \* number of Post entities when delete_all_posts started
    output_file,    \* the CSV file: [exists, rows]
    origin,         \* what the output path held before the first export
    exports,        \* PARAM -> number of exports of non-empty results so far
    mpc,            \* main thread: position in main / run_load_test
    args,           \* parsed command line
    iteration,      \* run_load_test: loop variable
    task,           \* run_single_test: state of each user's future
    task_results,   \* run_user_requests: local results of each user's task
    submitted,      \* run_single_test: number of futures submitted
    collected,      \* run_single_test: futures already yielded by as_completed
    all_results,    \* run_single_test: all_results
    issued          \* number of timeline requests issued since main started

vars == <<posts, users, user, limit, env, tl, res,
          dpc, batch_size, batch, passes, queries, initial_count,
          output_file, origin, exports,
          mpc, args, iteration, task, task_results, submitted, collected,
          all_results, issued>>

timelineVars == <<user, limit, env, tl, res>>
deleteVars == <<dpc, batch_size, batch, passes, queries, initial_count>>
exportVars == <<output_file, origin, exports>>
loadVars == <<mpc, args, iteration, task, task_results, submitted, collected,
              all_results, issued>>

----------------------------------------------------------------------------
(* Bounds of the model *)

NumAuthors == 2
MaxPosts == 3
MaxLimit == 2
MaxEntities == 7
MaxBatch == 3
MaxUsers == 2
MaxRequests == 1
MaxExports == 3

(* Program constants *)

Iterations == 3
DefaultBatchSize == 500

----------------------------------------------------------------------------
(* Helpers *)

Min(a, b) == IF a < b THEN a ELSE b

Range(s) == {s[i] : i \in DOMAIN s}

\* s[:n] for n >= 0
Take(s, n) == SubSeq(s, 1, Min(n, Len(s)))

\* every list without repetition of the elements of S
ListsOf(S) ==
    {s \in [1..Cardinality(S) -> S] : \A i, j \in DOMAIN s : s[i] = s[j] => i = j}

RECURSIVE SumSeq(_)
SumSeq(s) == IF s = <<>> THEN 0 ELSE Head(s) + SumSeq(Tail(s))

\* f"{user_prefix}{i}" with the default prefix
UserName(i) == "user" \o ToString(i)

Authors == {UserName(i) : i \in 1..NumAuthors}

None == [exists |-> FALSE, follows |-> <<>>]

NoError == "None"
ErrGet == "get failed"
ErrEq == "equality filter failed"

----------------------------------------------------------------------------
(* get_timeline *)

\* list.insert keeping the order of sorted(..., reverse=True): p goes after
\* every element whose created is >= its own (the sort is stable)
RECURSIVE Insert(_, _)
Insert(p, s) ==
    IF s = <<>> THEN <<p>>
    ELSE IF Head(s).created < p.created THEN <<p>> \o s
    ELSE <<Head(s)>> \o Insert(p, Tail(s))

\* sorted(posts, key=lambda p: p.get('created'), reverse=True)
RECURSIVE SortedDesc(_)
SortedDesc(s) ==
    IF s = <<>> THEN <<>>
    ELSE Insert(s[Len(s)], SortedDesc(SubSeq(s, 1, Len(s) - 1)))

\* the datastore's ORDER BY created DESC on a set of entities
RECURSIVE OrderByCreatedDesc(_)
OrderByCreatedDesc(S) ==
    IF S = {} THEN <<>>
    ELSE LET p == CHOOSE q \in S : \A r \in S : r.created <= q.created
         IN <<p>> \o OrderByCreatedDesc(S \ {p})

\* client.get(client.key('User', user))
ClientGet(u) == IF u \in DOMAIN users THEN users[u] ELSE None

\* {*follows, user}: follows of the entity when it exists, plus user
FollowSet(u, user_entity) ==
    (IF user_entity.exists THEN Range(user_entity.follows) ELSE {}) \cup {u}

\* gql "SELECT * FROM Post WHERE author IN @authors ORDER BY created DESC",
\* fetch(limit=limit)
GqlFetch(follows, lim) ==
    Take(OrderByCreatedDesc({p \in posts : p.author \in Range(follows)}), lim)

\* query(kind='Post'), filter author IN follows, order -created, fetch(limit)
QueryIn(follows, lim) ==
    Take(OrderByCreatedDesc({p \in posts : p.author \in Range(follows)}), lim)

\* query(kind='Post'), filter author = author, order -created, fetch(limit)
QueryEq(author, lim) ==
    Take(OrderByCreatedDesc({p \in posts : p.author = author}), lim)

\* the loop over follows: posts.extend(list(q.fetch(limit=limit)))
RECURSIVE FanOut(_, _)
FanOut(follows, lim) ==
    IF follows = <<>> THEN <<>>
    ELSE QueryEq(Head(follows), lim) \o FanOut(Tail(follows), lim)

\* strategy 3 with the merge left unsorted before the truncation
Strategy3Unsorted(follows, lim) == Take(FanOut(follows, lim), lim)

\* strategy 3 when no per-author query raises
Strategy3(follows, lim) == Take(SortedDesc(FanOut(follows, lim)), lim)

Returned(value, attempted, source) ==
    [status |-> "return", value |-> value, error |-> NoError,
     attempted |-> attempted, source |-> source]

Raised(error, attempted) ==
    [status |-> "raise", value |-> <<>>, error |-> error,
     attempted |-> attempted, source |-> 0]

\* get_timeline with the test "if not used_gql" left out: the structured
\* query runs after a successful query-language fetch too
GetTimelineNoUsedGqlTest(u, lim, e) ==
    IF u = "" THEN Returned(<<>>, <<>>, 0)
    ELSE IF e.getRaises THEN Raised(ErrGet, <<>>)
    ELSE
      LET follows == e.order
          att1 == IF e.hasGql THEN <<1>> ELSE <<>>
      IN IF ~e.s2Raises
         THEN Returned(QueryIn(follows, lim), att1 \o <<2>>, 2)
         ELSE IF e.s3Raises
              THEN Raised(ErrEq, att1 \o <<2, 3>>)
         ELSE Returned(Strategy3(follows, lim), att1 \o <<2, 3>>, 3)

\* get_timeline(user, limit). e says what the client does: e.getRaises,
\* e.hasGql (hasattr(client, 'gql')), e.s1Raises, e.s2Raises, e.s3Raises
\* (one of the per-author queries raises; follows is never empty), and
\* e.order, the order in which list({*follows, user}) yields the set.
\* attempted lists the strategies run, source the one whose result is returned.
GetTimeline(u, lim, e) ==
    IF u = "" THEN Returned(<<>>, <<>>, 0)
    ELSE IF e.getRaises THEN Raised(ErrGet, <<>>)
    ELSE
      LET follows == e.order
          tried1 == e.hasGql
          used_gql == tried1 /\ ~e.s1Raises
          att1 == IF tried1 THEN <<1>> ELSE <<>>
      IN IF used_gql THEN Returned(GqlFetch(follows, lim), att1, 1)
         ELSE IF ~e.s2Raises
              THEN Returned(QueryIn(follows, lim), att1 \o <<2>>, 2)
         ELSE IF e.s3Raises
              THEN Raised(ErrEq, att1 \o <<2, 3>>)
         ELSE Returned(Strategy3(follows, lim), att1 \o <<2, 3>>, 3)

----------------------------------------------------------------------------
(* execute_timeline_request *)

Durations == {2, 5}

ResultRecord(u, duration, success, posts_count, error) ==
    [user |-> u, duration |-> duration, success |-> success,
     posts_count |-> posts_count, error |-> error]

\* execute_timeline_request without its except clause
ExecuteTimelineRequestNoExcept(u, lim, e) ==
    LET result == GetTimeline(u, lim, e)
    IN IF result.status = "return"
       THEN [kind |-> "return", error |-> NoError,
             value |-> ResultRecord(u, e.elapsed, TRUE, Len(result.value), NoError)]
       ELSE [kind |-> "raise", error |-> result.error,
             value |-> ResultRecord("", 0, FALSE, 0, NoError)]

\* execute_timeline_request(user, limit); e.elapsed is time.time() - start.
\* kind says whether the call returns or lets an exception through.
ExecuteTimelineRequest(u, lim, e) ==
    LET result == GetTimeline(u, lim, e)
    IN IF result.status = "return"
       THEN [kind |-> "return", error |-> NoError,
             value |-> ResultRecord(u, e.elapsed, TRUE, Len(result.value), NoError)]
       ELSE [kind |-> "return", error |-> NoError,
             value |-> ResultRecord(u, e.elapsed, FALSE, 0, result.error)]

\* everything the client can do during one request of user u
Envs(u) ==
    {e \in [getRaises : BOOLEAN, hasGql : BOOLEAN, s1Raises : BOOLEAN,
            s2Raises : BOOLEAN, s3Raises : BOOLEAN,
            order : ListsOf(FollowSet(u, ClientGet(u))),
            elapsed : Durations] : TRUE}

NoEnv == [getRaises |-> FALSE, hasGql |-> FALSE, s1Raises |-> FALSE,
          s2Raises |-> FALSE, s3Raises |-> FALSE, order |-> <<>>, elapsed |-> 0]

NoTimeline == [status |-> "none", value |-> <<>>, error |-> NoError,
               attempted |-> <<>>, source |-> 0]

NoResult == [kind |-> "none", error |-> NoError,
             value |-> ResultRecord("", 0, FALSE, 0, NoError)]

----------------------------------------------------------------------------
(* States in which a part of the program has not started *)

TimelineIdle ==
    /\ user = "" /\ limit = 0
    /\ env = NoEnv /\ tl = NoTimeline /\ res = NoResult

DeleteIdle ==
    /\ dpc = "idle" /\ batch_size = DefaultBatchSize /\ batch = {}
    /\ passes = <<>> /\ queries = 0 /\ initial_count = 0

ExportIdle ==
    /\ output_file = [exists |-> FALSE, rows |-> <<>>]
    /\ origin = "absent"
    /\ exports = [p \in 1..MaxUsers |-> 0]

LoadIdle ==
    /\ mpc = "idle"
    /\ args = [concurrent_users |-> 0, requests_per_user |-> 0, limit |-> 0]
    /\ iteration = 0
    /\ task = <<>> /\ task_results = <<>>
    /\ submitted = 0 /\ collected = {}
    /\ all_results = <<>> /\ issued = 0

----------------------------------------------------------------------------
(* Timeline requests on every small datastore *)

\* the follows property of a User entity: a list, repetitions allowed
FollowLists == {<<>>} \cup {<<a>> : a \in Authors}
               \cup {<<a, b>> : a \in Authors, b \in Authors}

Entities == {None} \cup {[exists |-> TRUE, follows |-> s] : s \in FollowLists}

\* n posts with distinct created values, each by some author
PostSets ==
    UNION {{{[author |-> f[t], created |-> t] : t \in 1..n} : f \in [1..n -> Authors]}
           : n \in 0..MaxPosts}

InitTimeline ==
    /\ posts \in PostSets
    /\ user \in Authors \cup {""}
    /\ limit \in 0..MaxLimit
    /\ \E en \in Entities :
         users = [a \in Authors |-> IF a = user THEN en ELSE None]
    /\ env = NoEnv /\ tl = NoTimeline /\ res = NoResult
    /\ DeleteIdle /\ ExportIdle /\ LoadIdle

\* one call of execute_timeline_request(user, limit)
Request ==
    /\ res.kind = "none"
    /\ \E e \in Envs(user) :
        /\ env' = e
        /\ tl' = GetTimeline(user, limit, e)
        /\ res' = ExecuteTimelineRequest(user, limit, e)
        /\ UNCHANGED <<posts, users, user, limit>>
        /\ UNCHANGED <<deleteVars, exportVars, loadVars>>

NextTimeline == Request

SpecTimeline == InitTimeline /\ [][NextTimeline]_vars

----------------------------------------------------------------------------
(* Claims about get_timeline and execute_timeline_request (SpecTimeline) *)

\* a call reached the strategies: user is not empty and client.get returned
ReachedStrategies == tl.status # "none" /\ user # "" /\ ~env.getRaises

Attempted(n) == n \in Range(tl.attempted)

\* what strategy n returns on the current data
StrategyResult(n) ==
    IF n = 1 THEN GqlFetch(env.order, limit)
    ELSE IF n = 2 THEN QueryIn(env.order, limit)
    ELSE Strategy3(env.order, limit)

StrategyRaises(n) ==
    IF n = 1 THEN env.s1Raises ELSE IF n = 2 THEN env.s2Raises ELSE env.s3Raises

\* C1: get_timeline tries query-language, IN-filter, fan-out in that order and
\* returns the result of the first strategy that does not raise, whatever its
\* length: strategy 1 runs only with the gql capability, strategy 2 exactly
\* when strategy 1 was skipped or raised, strategy 3 exactly when strategy 2
\* raised; errors of strategies 1 and 2 never reach the caller, an error of
\* strategy 3 does.
C1_StrategyOrder ==
    ReachedStrategies =>
        /\ \A i, j \in DOMAIN tl.attempted : i < j => tl.attempted[i] < tl.attempted[j]
        /\ Attempted(1) <=> env.hasGql
        /\ Attempted(2) <=> (~Attempted(1) \/ env.s1Raises)
        /\ Attempted(3) <=> (Attempted(2) /\ env.s2Raises)
        /\ tl.status = "raise" <=> (Attempted(3) /\ env.s3Raises)
        /\ tl.status = "raise" => tl.error = ErrEq
        /\ tl.status = "return" =>
              /\ Attempted(tl.source)
              /\ ~StrategyRaises(tl.source)
              /\ \A n \in Range(tl.attempted) : n < tl.source => StrategyRaises(n)
              /\ tl.value = StrategyResult(tl.source)

\* strategy 1 returned fewer posts than limit and strategy 2, which would have
\* raised, was not run
C1_Witness ==
    /\ ReachedStrategies
    /\ tl.status = "return" /\ tl.source = 1
    /\ Len(tl.value) < limit
    /\ env.s2Raises /\ env.s3Raises

\* C7: execute_timeline_request never raises; it returns success=true with
\* posts_count the length of the timeline and no error when get_timeline
\* returns, and success=false, posts_count=0 and the stringified error when
\* get_timeline raises; the duration is recorded in both cases.
C7_RequestNeverRaises ==
    res.kind # "none" =>
        /\ res.kind = "return"
        /\ res.value.user = user
        /\ res.value.duration = env.elapsed
        /\ tl.status = "return" =>
              /\ res.value.success
              /\ res.value.posts_count = Len(tl.value)
              /\ res.value.error = NoError
        /\ tl.status = "raise" =>
              /\ ~res.value.success
              /\ res.value.posts_count = 0
              /\ res.value.error = tl.error

\* an error of strategy 3 came out of get_timeline and was captured
C7_Witness ==
    /\ res.kind = "return"
    /\ tl.status = "raise" /\ Attempted(3)
    /\ ~res.value.success /\ res.value.error = ErrEq
    /\ res.value.duration \in Durations

\* the posts of the follow-set of the requesting user
FollowedPosts ==
    {p \in posts : p.author \in FollowSet(user, ClientGet(user))}

\* C10: when strategies 1 and 2 fail and every per-author query succeeds,
\* get_timeline returns at most limit posts, sorted by created descending,
\* that are the limit most recent posts of the follow-set, that is, what the
\* IN-filter strategy returns on the same data.
C10_FanOutIsTopLimit ==
    (ReachedStrategies /\ tl.status = "return" /\ tl.source = 3) =>
        /\ Len(tl.value) = Min(limit, Cardinality(FollowedPosts))
        /\ \A i, j \in DOMAIN tl.value :
              i < j => tl.value[i].created > tl.value[j].created
        /\ Range(tl.value) \subseteq FollowedPosts
        /\ \A p \in Range(tl.value) : \A q \in FollowedPosts \ Range(tl.value) :
              q.created < p.created
        /\ tl.value = QueryIn(env.order, limit)

\* the merge held more than limit posts and the result mixes two authors
C10_Witness ==
    /\ ReachedStrategies /\ tl.status = "return" /\ tl.source = 3
    /\ limit >= 2
    /\ Len(FanOut(env.order, limit)) > limit
    /\ \E i, j \in DOMAIN tl.value : tl.value[i].author # tl.value[j].author

----------------------------------------------------------------------------
(* delete_all_posts *)

\* list(query.fetch(limit=batch_size)) of a keys-only query without order:
\* any batch_size entities, or all of them when fewer remain
Fetch(S, lim) == {b \in SUBSET S : Cardinality(b) = Min(lim, Cardinality(S))}

\* the transaction deleting only one entity of the batch
DeleteFirstOnly(S, b) == S \ {CHOOSE x \in b : TRUE}

\* with client.transaction(): for entity in posts: client.delete(entity.key)
DeleteEntities(S, b) == S \ b

InitDelete ==
    /\ \E n \in 0..MaxEntities :
         /\ posts = {[author |-> UserName(1), created |-> t] : t \in 1..n}
         /\ initial_count = n
    /\ batch_size \in 1..MaxBatch
    /\ dpc = "query" /\ batch = {} /\ passes = <<>> /\ queries = 0
    /\ users = [a \in Authors |-> None]
    /\ TimelineIdle /\ ExportIdle /\ LoadIdle

\* posts = list(query.fetch(limit=batch_size)); if not posts: break
QueryFetch ==
    /\ dpc = "query"
    /\ \E b \in Fetch(posts, batch_size) :
         /\ batch' = b
         /\ dpc' = IF b = {} THEN "done" ELSE "delete"
    /\ queries' = queries + 1
    /\ UNCHANGED <<posts, users, batch_size, passes, initial_count>>
    /\ UNCHANGED <<timelineVars, exportVars, loadVars>>

\* the transaction, then print(f"Supprime {len(posts)} posts...")
DeleteBatch ==
    /\ dpc = "delete"
    /\ posts' = DeleteEntities(posts, batch)
    /\ passes' = Append(passes, Cardinality(batch))
    /\ dpc' = "query"
    /\ UNCHANGED <<users, batch_size, batch, queries, initial_count>>
    /\ UNCHANGED <<timelineVars, exportVars, loadVars>>

NextDelete == QueryFetch \/ DeleteBatch

\* the script runs on: a loop that can take a step takes it
SpecDelete == InitDelete /\ [][NextDelete]_vars /\ WF_vars(NextDelete)

\* ceil(n / b)
CeilDiv(n, b) == (n + b - 1) \div b

\* C8: delete_all_posts terminates after exactly ceil(N/B) delete passes, pass
\* i deleting min(B, remaining) entities, and one more query that finds
\* nothing; no Post entity remains.
C8_DeleteTerminates ==
    <>[](/\ dpc = "done"
         /\ posts = {}
         /\ Len(passes) = CeilDiv(initial_count, batch_size)
         /\ \A i \in DOMAIN passes :
               passes[i] = Min(batch_size, initial_count - (i - 1) * batch_size)
         /\ queries = Len(passes) + 1)

\* two full passes and a shorter third one, as 1200 entities by 500
C8_Witness ==
    /\ dpc = "done" /\ posts = {}
    /\ Len(passes) = 3
    /\ passes[1] = batch_size /\ passes[2] = batch_size
    /\ passes[3] < batch_size

----------------------------------------------------------------------------
(* export_to_csv *)

Header == <<"PARAM", "AVG_TIME", "RUN", "FAILED">>

\* PARAM is concurrent_users
Params == 1..MaxUsers

\* the integers whose decimal form int() may meet in the RUN column
IntLiterals == 0..(MaxExports + Iterations + 1)

IsIntLiteral(str) == \E n \in IntLiterals : ToString(n) = str

\* int(str)
ParseInt(str) == CHOOSE n \in IntLiterals : ToString(n) = str

MaxOf(S) == CHOOSE m \in S : \A n \in S : n <= m

\* csv.DictReader: the first row of the file gives the field names
FieldNames(rows) == IF rows = <<>> THEN <<>> ELSE Head(rows)

\* csv.DictReader: every later row is a dict from the field names to its values
DictRows(rows) == IF rows = <<>> THEN <<>> ELSE Tail(rows)

HasKey(fieldnames, k) == k \in Range(fieldnames)

\* r[k]: with a repeated field name the dict keeps the last value
Get(fieldnames, r, k) ==
    r[CHOOSE i \in DOMAIN fieldnames :
        /\ fieldnames[i] = k
        /\ \A j \in DOMAIN fieldnames : j > i => fieldnames[j] # k]

\* int(statistics.mean([r['duration'] * 1000 for r in successful])) if
\* successful else 0; durations of the model are whole milliseconds
AvgTimeMs(results) ==
    LET successful == SelectSeq(results, LAMBDA r : r.success)
    IN IF successful = <<>> THEN 0
       ELSE SumSeq([i \in DOMAIN successful |-> successful[i].duration])
            \div Len(successful)

\* 1 if len(failed) > 0 else 0
FailedFlag(results) ==
    IF SelectSeq(results, LAMBDA r : ~r.success) # <<>> THEN 1 ELSE 0

\* the run number taken from the last run of any parameter
RunNumberAnyParam(f, param) ==
    IF ~f.exists THEN 1
    ELSE
      LET fieldnames == FieldNames(f.rows)
          rows == DictRows(f.rows)
          raises == \E i \in DOMAIN rows :
                       \/ ~HasKey(fieldnames, "RUN")
                       \/ ~IsIntLiteral(Get(fieldnames, rows[i], "RUN"))
          matching_rows == {ParseInt(Get(fieldnames, rows[i], "RUN")) : i \in DOMAIN rows}
      IN IF raises \/ matching_rows = {} THEN 1 ELSE MaxOf(matching_rows) + 1

\* run_number: 1, or one more than the largest RUN among the rows of the file
\* whose PARAM is str(param); any exception while reading leaves it at 1
RunNumber(f, param) ==
    IF ~f.exists THEN 1
    ELSE
      LET fieldnames == FieldNames(f.rows)
          rows == DictRows(f.rows)
          matches(i) == Get(fieldnames, rows[i], "PARAM") = ToString(param)
          raises == \E i \in DOMAIN rows :
                       \/ ~HasKey(fieldnames, "PARAM")
                       \/ /\ matches(i)
                          /\ \/ ~HasKey(fieldnames, "RUN")
                             \/ ~IsIntLiteral(Get(fieldnames, rows[i], "RUN"))
          matching_rows == {ParseInt(Get(fieldnames, rows[i], "RUN")) :
                               i \in {j \in DOMAIN rows : matches(j)}}
      IN IF raises \/ matching_rows = {} THEN 1 ELSE MaxOf(matching_rows) + 1

\* the header written by every export
HeaderRowsAlways(f) == <<Header>>

\* the header written whenever the file does not start with one
HeaderRowsIfMissing(f) ==
    IF ~f.exists \/ f.rows = <<>> \/ Head(f.rows) # Header THEN <<Header>> ELSE <<>>

\* if not file_exists: writer.writerow(['PARAM', 'AVG_TIME', 'RUN', 'FAILED'])
HeaderRows(f) == IF ~f.exists THEN <<Header>> ELSE <<>>

\* [param, f"{avg_time_ms}ms", run_number, failed_flag] as csv.writer writes it
DataRow(param, avg_time_ms, run_number, failed_flag) ==
    <<ToString(param), ToString(avg_time_ms) \o "ms", ToString(run_number),
      ToString(failed_flag)>>

\* export_to_csv that returns early when no request succeeded
ExportToCsvSkipAllFailed(f, results, concurrent_users) ==
    IF SelectSeq(results, LAMBDA r : r.success) = <<>> THEN f
    ELSE [exists |-> TRUE,
          rows |-> f.rows \o HeaderRows(f) \o
                   <<DataRow(concurrent_users, AvgTimeMs(results),
                             RunNumber(f, concurrent_users), FailedFlag(results))>>]

\* export_to_csv(results, concurrent_users, ..., output_file) without file
\* I/O failure: the file afterwards
ExportToCsv(f, results, concurrent_users) ==
    IF results = <<>> THEN f
    ELSE [exists |-> TRUE,
          rows |-> f.rows \o HeaderRows(f) \o
                   <<DataRow(concurrent_users, AvgTimeMs(results),
                             RunNumber(f, concurrent_users), FailedFlag(results))>>]

----------------------------------------------------------------------------
(* Exports to one path, in any order of parameters *)

OkResult(d) == ResultRecord(UserName(1), d, TRUE, 0, NoError)
FailResult == ResultRecord(UserName(1), 2, FALSE, 0, ErrEq)

ResultLists ==
    {<<>>, <<OkResult(2)>>, <<FailResult>>, <<OkResult(2), OkResult(5)>>,
     <<OkResult(5), FailResult>>}

\* the path before the first export: no file, an empty file, or a file
\* that holds the header only
OriginFile(o) ==
    IF o = "absent" THEN [exists |-> FALSE, rows |-> <<>>]
    ELSE IF o = "empty" THEN [exists |-> TRUE, rows |-> <<>>]
    ELSE [exists |-> TRUE, rows |-> <<Header>>]

Origins == {"absent", "empty", "header"}

RECURSIVE SumOver(_, _)
SumOver(f, S) ==
    IF S = {} THEN 0
    ELSE LET x == CHOOSE y \in S : TRUE IN f[x] + SumOver(f, S \ {x})

TotalExports == SumOver(exports, Params)

InitExport ==
    /\ origin \in Origins
    /\ output_file = OriginFile(origin)
    /\ exports = [p \in Params |-> 0]
    /\ posts = {} /\ users = [a \in Authors |-> None]
    /\ TimelineIdle /\ DeleteIdle /\ LoadIdle

Export ==
    /\ TotalExports < MaxExports
    /\ \E p \in Params, results \in ResultLists :
         /\ output_file' = ExportToCsv(output_file, results, p)
         /\ exports' = IF results = <<>> THEN exports
                       ELSE [exports EXCEPT ![p] = @ + 1]
    /\ UNCHANGED <<posts, users, origin>>
    /\ UNCHANGED <<timelineVars, deleteVars, loadVars>>

NextExport == Export

SpecExport == InitExport /\ [][NextExport]_vars

\* the RUN values of the rows whose PARAM is str(p), in file order
RunsOf(p) ==
    LET rows == SelectSeq(output_file.rows, LAMBDA r : r[1] = ToString(p))
    IN [i \in DOMAIN rows |-> ParseInt(rows[i][3])]

DataRowsOf(f) == SelectSeq(f.rows, LAMBDA r : r # Header)

\* C2: starting from an absent file, the rows of every parameter p carry, in
\* file order, the RUN values 1..N, N the number of exports made with p,
\* however the rows of other parameters are interleaved.
C2_RunIndices ==
    origin = "absent" =>
        \A p \in Params : RunsOf(p) = [i \in 1..exports[p] |-> i]

\* two parameters exported alternately, one of them twice
C2_Witness ==
    /\ origin = "absent"
    /\ \E p, q \in Params :
         /\ p # q /\ exports[p] >= 2 /\ exports[q] >= 1
         /\ \E i, j, k \in DOMAIN output_file.rows :
              /\ i < j /\ j < k
              /\ output_file.rows[i][1] = ToString(p)
              /\ output_file.rows[j][1] = ToString(q)
              /\ output_file.rows[k][1] = ToString(p)

\* C4 as stated: after an export the first line of the file is the header,
\* whether the file was absent or existed without a header.
C4_HeaderWheneverMissing ==
    TotalExports > 0 =>
        /\ output_file.rows # <<>>
        /\ Head(output_file.rows) = Header

\* C4 amended: an export writes the header before the data row exactly when
\* the file does not exist; to a file that exists, with or without a header
\* (an empty file for one), it appends the data row only.
C4_HeaderOnlyWhenAbsent ==
    [][exports' # exports =>
         /\ output_file'.exists
         /\ Len(output_file'.rows) > 0
         /\ output_file'.rows[Len(output_file'.rows)] # Header
         /\ output_file'.rows =
               output_file.rows
               \o (IF output_file.exists THEN <<>> ELSE <<Header>>)
               \o <<output_file'.rows[Len(output_file'.rows)]>>]_vars

\* an export to an existing empty file left it without a header
C4_Witness ==
    /\ origin = "empty"
    /\ TotalExports = 1
    /\ Len(output_file.rows) = 1
    /\ Head(output_file.rows) # Header

\* C5: on a fresh path the first export writes the header once and one data
\* row; after k further exports the file holds the header once, as its first
\* line, and k+1 data rows.
C5_HeaderOnce ==
    origin = "absent" =>
        IF TotalExports = 0
        THEN ~output_file.exists /\ output_file.rows = <<>>
        ELSE /\ output_file.exists
             /\ Len(output_file.rows) = TotalExports + 1
             /\ output_file.rows[1] = Header
             /\ \A i \in 2..Len(output_file.rows) :
                   /\ output_file.rows[i] # Header
                   /\ Len(output_file.rows[i]) = Len(Header)

\* a fresh path after the first export and two more
C5_Witness ==
    /\ origin = "absent"
    /\ TotalExports = 3
    /\ Len(output_file.rows) = 4
    /\ output_file.rows[1] = Header

----------------------------------------------------------------------------
(* main, run_load_test, run_single_test, run_user_requests *)

\* main: not (concurrent_users <= 0), the second test forgotten
ValidArgsUsersOnly(a) == ~(a.concurrent_users <= 0)

\* main: not (concurrent_users <= 0 or requests_per_user <= 0)
ValidArgs(a) == ~(a.concurrent_users <= 0 \/ a.requests_per_user <= 0)

\* the pool left as soon as one future has been yielded
PoolLeftAfterFirst(c, t) == c # {}

\* the loop over as_completed(futures) has yielded every future, and the
\* with block of the executor has waited for every worker
PoolJoined(c, t) == c = DOMAIN t

\* range(num_requests) is empty for num_requests <= 0
RequestsToRun == IF args.requests_per_user > 0 THEN args.requests_per_user ELSE 0

\* the requests of the load test: the follow-set is the user alone, the
\* client has no gql, and the structured queries either work or raise
LoadEnvs(u) ==
    {e \in Envs(u) : /\ ~e.getRaises /\ ~e.hasGql /\ ~e.s1Raises
                     /\ e.s2Raises = e.s3Raises /\ e.elapsed = 2}

NoTaskRunning == \A i \in DOMAIN task : task[i] # "running"

InitLoad ==
    /\ mpc = "main"
    /\ \E cu \in (-1)..MaxUsers, rpu \in (-1)..MaxRequests :
         args = [concurrent_users |-> cu, requests_per_user |-> rpu,
                 limit |-> MaxLimit]
    /\ iteration = 0
    /\ task = <<>> /\ task_results = <<>>
    /\ submitted = 0 /\ collected = {}
    /\ all_results = <<>> /\ issued = 0
    /\ origin = "absent"
    /\ output_file = OriginFile(origin)
    /\ exports = [p \in Params |-> 0]
    /\ posts = {[author |-> UserName(i), created |-> i] : i \in 1..NumAuthors}
    /\ users = [a \in Authors |-> None]
    /\ TimelineIdle /\ DeleteIdle

\* main: the validation, then run_load_test up to its loop
Main ==
    /\ mpc = "main"
    /\ IF ValidArgs(args)
       THEN mpc' = "iterate" /\ iteration' = 1
       ELSE mpc' = "rejected" /\ UNCHANGED iteration
    /\ UNCHANGED <<posts, users, args, task, task_results, submitted, collected,
                   all_results, issued>>
    /\ UNCHANGED <<timelineVars, deleteVars, exportVars>>

\* run_single_test up to the executor: ThreadPoolExecutor raises ValueError
\* when max_workers <= 0
StartSingleTest ==
    /\ mpc = "iterate"
    /\ IF args.concurrent_users <= 0
       THEN /\ mpc' = "crashed"
            /\ UNCHANGED <<task, task_results, submitted, collected, all_results>>
       ELSE /\ mpc' = "submit"
            /\ task' = [i \in 1..args.concurrent_users |-> "unsubmitted"]
            /\ task_results' = [i \in 1..args.concurrent_users |-> <<>>]
            /\ submitted' = 0
            /\ collected' = {}
            /\ all_results' = <<>>
    /\ UNCHANGED <<posts, users, args, iteration, issued>>
    /\ UNCHANGED <<timelineVars, deleteVars, exportVars>>

\* executor.submit(run_user_requests, user, requests_per_user, limit) for the
\* next user of user_names; the pool has a worker for every user
Submit ==
    /\ mpc = "submit"
    /\ submitted' = submitted + 1
    /\ task' = [task EXCEPT ![submitted + 1] = "running"]
    /\ mpc' = IF submitted + 1 = args.concurrent_users THEN "collect" ELSE "submit"
    /\ UNCHANGED <<posts, users, args, iteration, task_results, collected,
                   all_results, issued>>
    /\ UNCHANGED <<timelineVars, deleteVars, exportVars>>

\* run_user_requests: one turn of the loop, results.append(result); an
\* exception out of execute_timeline_request ends the task
TaskRequest(i) ==
    /\ task[i] = "running"
    /\ Len(task_results[i]) < RequestsToRun
    /\ \E e \in LoadEnvs(UserName(i)) :
         LET r == ExecuteTimelineRequest(UserName(i), args.limit, e)
         IN IF r.kind = "return"
            THEN /\ task_results' = [task_results EXCEPT ![i] = Append(@, r.value)]
                 /\ UNCHANGED task
            ELSE /\ task_results' = [task_results EXCEPT ![i] = <<>>]
                 /\ task' = [task EXCEPT ![i] = "failed"]
    /\ issued' = issued + 1
    /\ UNCHANGED <<posts, users, mpc, args, iteration, submitted, collected,
                   all_results>>
    /\ UNCHANGED <<timelineVars, deleteVars, exportVars>>

\* run_user_requests: return results
TaskReturn(i) ==
    /\ task[i] = "running"
    /\ Len(task_results[i]) = RequestsToRun
    /\ task' = [task EXCEPT ![i] = "done"]
    /\ UNCHANGED <<posts, users, mpc, args, iteration, task_results, submitted,
                   collected, all_results, issued>>
    /\ UNCHANGED <<timelineVars, deleteVars, exportVars>>

\* the task ends with an exception of its own: the future holds no results
TaskFail(i) ==
    /\ task[i] = "running"
    /\ task' = [task EXCEPT ![i] = "failed"]
    /\ task_results' = [task_results EXCEPT ![i] = <<>>]
    /\ UNCHANGED <<posts, users, mpc, args, iteration, submitted, collected,
                   all_results, issued>>
    /\ UNCHANGED <<timelineVars, deleteVars, exportVars>>

\* one turn of "for future in as_completed(futures)": all_results.extend of
\* the results of a future that returned, a message for one that raised
Collect(i) ==
    /\ mpc = "collect"
    /\ i \notin collected
    /\ task[i] \in {"done", "failed"}
    /\ collected' = collected \cup {i}
    /\ all_results' = IF task[i] = "done" THEN all_results \o task_results[i]
                      ELSE all_results
    /\ UNCHANGED <<posts, users, mpc, args, iteration, task, task_results,
                   submitted, issued>>
    /\ UNCHANGED <<timelineVars, deleteVars, exportVars>>

\* the end of the with block: run_single_test returns all_results
LeavePool ==
    /\ mpc = "collect"
    /\ PoolJoined(collected, task)
    /\ mpc' = "report"
    /\ UNCHANGED <<posts, users, args, iteration, task, task_results, submitted,
                   collected, all_results, issued>>
    /\ UNCHANGED <<timelineVars, deleteVars, exportVars>>

\* the rest of the loop body: print_results (console only), export_to_csv,
\* time.sleep(1) unless this was the last iteration; the locals of the
\* iteration are gone
ReportExport ==
    /\ mpc = "report"
    /\ output_file' = ExportToCsv(output_file, all_results, args.concurrent_users)
    /\ exports' = IF all_results = <<>> THEN exports
                  ELSE [exports EXCEPT ![args.concurrent_users] = @ + 1]
    /\ IF iteration < Iterations
       THEN mpc' = "iterate" /\ iteration' = iteration + 1
       ELSE mpc' = "finished" /\ UNCHANGED iteration
    /\ task' = <<>> /\ task_results' = <<>>
    /\ submitted' = 0 /\ collected' = {}
    /\ all_results' = <<>>
    /\ UNCHANGED <<posts, users, origin, args, issued>>
    /\ UNCHANGED <<timelineVars, deleteVars>>

NextLoad ==
    \/ Main
    \/ StartSingleTest
    \/ Submit
    \/ \E i \in DOMAIN task : TaskRequest(i)
    \/ \E i \in DOMAIN task : TaskReturn(i)
    \/ \E i \in DOMAIN task : TaskFail(i)
    \/ \E i \in DOMAIN task : Collect(i)
    \/ LeavePool
    \/ ReportExport

SpecLoad == InitLoad /\ [][NextLoad]_vars

----------------------------------------------------------------------------
(* Claims about the load driver (SpecLoad) *)

\* the iterations of run_load_test whose export has been called
IterationsReported ==
    IF mpc = "finished" THEN iteration
    ELSE IF mpc \in {"iterate", "submit", "collect", "report"} THEN iteration - 1
    ELSE 0

C6_InvalidArgsRejected ==
    (mpc # "main" /\ (args.concurrent_users <= 0 \/ args.requests_per_user <= 0)) =>
        /\ mpc = "rejected"
        /\ issued = 0
        /\ task = <<>>
        /\ output_file = OriginFile(origin)

\* concurrent_users = 0 with a valid requests_per_user, rejected
C6_Witness ==
    /\ mpc = "rejected"
    /\ args.concurrent_users = 0 /\ args.requests_per_user > 0
    /\ issued = 0 /\ output_file = OriginFile(origin)

\* C9: the output file changes only while no per-user task runs: the export
\* of an iteration comes after all its tasks completed or failed, and tasks
\* run only between the start of an iteration and its export.
C9_ExportAfterJoin ==
    /\ [](mpc \notin {"submit", "collect"} => NoTaskRunning)
    /\ [][(output_file' # output_file \/ mpc = "report") =>
            /\ NoTaskRunning /\ mpc = "report"
            /\ collected = DOMAIN task
            /\ \A i \in DOMAIN task : task[i] \in {"done", "failed"}]_vars

\* the second iteration's tasks run after the first iteration's row is written
C9_Witness ==
    /\ iteration = 2 /\ mpc = "collect"
    /\ \E i \in DOMAIN task : task[i] = "running"
    /\ Len(DataRowsOf(output_file)) = 1

====
